---- MODULE Spec2Model ----
(***************************************************************************)
(* Model of the App component (src/unnamed/part_000): the class registry,  *)
(* the training controller (startTraining) and the inference orchestrator  *)
(* (handleInference).                                                      *)
(*                                                                         *)
(* React state is modelled in two layers.  The state variables (classes,   *)
(* isTraining, ...) hold the value last passed to their setters.  The      *)
(* handlers are closures created by a render: they read the values of the  *)
(* render that created them (variable rendered), not the latest values.    *)
(* Render is a step of its own, so a handler may run again before the      *)
(* updates of an earlier handler have been rendered.  All setter calls of  *)
(* one synchronous stretch of a handler are one step.                      *)
(*                                                                         *)
(* The services (trainCNN, predictCNN, predictSimple, classifyWithGemini)  *)
(* are promises that settle at any later step, fulfilled or rejected; the  *)
(* payload of their results is opaque apart from modelName.  The image     *)
(* source (webcamActive, uploadedImage) only decides whether a frame is    *)
(* at hand for handleInference; a frame is taken to be always at hand.     *)
(***************************************************************************)
EXTENDS Integers, Sequences, FiniteSets, Bags, TLC

\* ---------------------------------------------------------------- bounds
\* addClass is offered while fewer than MaxClasses classes are shown, a class
\* card takes up to MaxSamples samples, and at most MaxInFlight promises
\* (trainCNN runs plus handleInference fan-ins) are pending at a time
MaxClasses == 2
MaxSamples == 3
MaxInFlight == 2

\* ------------------------------------------------------------- constants
MIN_SAMPLES_PER_CLASS == 3

\* the null of TrainingMetrics | null
NULL == [null |-> TRUE]

\* ids produced by Math.random().toString(36).substr(2, 9)
RandomIds == {"a"}
\* encoded image payloads (base64 strings)
Payloads == {"img"}
\* values trainCNN reports through its progress callback
ProgressValues == {50}
\* TrainingMetrics values a trainCNN run may resolve with
MetricsValues == {[accuracy |-> 100]}

\* enum ModelType
ModelType == [CNN |-> "MobileNet CNN", GEMINI |-> "Gemini 2.5 Flash",
              SIMPLE |-> "Color Histogram"]

VARIABLES
    classes,          \* useState<ClassItem[]>
    isTraining,       \* useState(false)
    trainingProgress, \* useState(0)
    isModelReady,     \* useState(false)
    trainingMetrics,  \* useState<TrainingMetrics | null>(null)
    isPredicting,     \* useState(false)
    predictions,      \* useState<PredictionResult[]>([])
    rendered,         \* the state values captured by the handlers' closures
    trainRuns,        \* number of pending trainCNN promises
    inferCalls,       \* bag of handleInference calls suspended at Promise.all
    mobileNet,        \* the loadMobileNet() promise of the mount effect
    ev                \* history: the handler step taken last and its outcome

state == <<classes, isTraining, trainingProgress, isModelReady,
           trainingMetrics, isPredicting, predictions>>
vars == <<classes, isTraining, trainingProgress, isModelReady, trainingMetrics,
          isPredicting, predictions, rendered, trainRuns, inferCalls,
          mobileNet, ev>>

\* ---------------------------------------------------------------- helpers
\* `Class ${newId}`
ClassName(n) == "Class " \o ToString(n)

\* what a render captures for the handlers it creates
Snapshot == [classes |-> classes, isTraining |-> isTraining,
             isModelReady |-> isModelReady, isPredicting |-> isPredicting]

\* promises the app is waiting for: trainCNN runs and handleInference fan-ins
InFlight == trainRuns + BagCardinality(inferCalls)

Event(op, result) == [op |-> op, result |-> result]

\* ------------------------------------------------------------------- Init
Init ==
    /\ classes = << [id |-> "1", name |-> "Class 1", samples |-> <<>>],
                    [id |-> "2", name |-> "Class 2", samples |-> <<>>] >>
    /\ isTraining = FALSE
    /\ trainingProgress = 0
    /\ isModelReady = FALSE
    /\ trainingMetrics = NULL
    /\ isPredicting = FALSE
    /\ predictions = <<>>
    /\ rendered = [classes |-> classes, isTraining |-> FALSE,
                   isModelReady |-> FALSE, isPredicting |-> FALSE]
    /\ trainRuns = 0
    /\ inferCalls = EmptyBag
    /\ mobileNet = "loading"
    /\ ev = Event("mount", "ok")

\* React re-renders App: new handler closures over the current state
Render ==
    /\ rendered # Snapshot
    /\ rendered' = Snapshot
    /\ ev' = Event("render", "ok")
    /\ UNCHANGED <<mobileNet, state, trainRuns, inferCalls>>

\* ------------------------------------------------------- class registry
AddClass ==
    \E rid \in RandomIds :
        /\ Len(rendered.classes) < MaxClasses
        /\ LET newId == Len(rendered.classes) + 1
           IN classes' = Append(rendered.classes,
                                [id |-> rid, name |-> ClassName(newId),
                                 samples |-> <<>>])
        /\ ev' = Event("addClass", "ok")
        /\ UNCHANGED <<mobileNet, isTraining, trainingProgress, isModelReady,
                       trainingMetrics, isPredicting, predictions, rendered,
                       trainRuns, inferCalls>>

\* the values a ClassCard can hand to onUpdate for the class item c it shows:
\* c with a sample added or with its last sample removed
CardUpdates(c) ==
    {[c EXCEPT !.samples = Append(c.samples, p)] :
        p \in {q \in Payloads : Len(c.samples) < MaxSamples}}
    \cup {[c EXCEPT !.samples = SubSeq(c.samples, 1, Len(c.samples) - 1)] :
        x \in {y \in {0} : Len(c.samples) > 0}}

\* classes.map(c => c.id === updated.id ? updated : c)
ReplaceClass(cls, updated) ==
    [i \in 1..Len(cls) |-> IF cls[i].id = updated.id THEN updated ELSE cls[i]]

UpdateClass ==
    \E i \in 1..Len(rendered.classes) :
      \E updated \in CardUpdates(rendered.classes[i]) :
        /\ classes' = ReplaceClass(rendered.classes, updated)
        /\ ev' = Event("updateClass", "ok")
        /\ UNCHANGED <<mobileNet, isTraining, trainingProgress, isModelReady,
                       trainingMetrics, isPredicting, predictions, rendered,
                       trainRuns, inferCalls>>

\* classes.filter(c => c.id !== id)
RemoveClass(cls, id) == SelectSeq(cls, LAMBDA c : c.id # id)

\* variant: deleting a class also drops the model-ready flag
DeleteClassInvalidating ==
    \E i \in 1..Len(rendered.classes) :
        /\ classes' = RemoveClass(rendered.classes, rendered.classes[i].id)
        /\ isModelReady' = FALSE
        /\ ev' = Event("deleteClass", "ok")
        /\ UNCHANGED <<mobileNet, isTraining, trainingProgress, trainingMetrics,
                       isPredicting, predictions, rendered, trainRuns,
                       inferCalls>>

DeleteClass ==
    \E i \in 1..Len(rendered.classes) :
        /\ classes' = RemoveClass(rendered.classes, rendered.classes[i].id)
        /\ ev' = Event("deleteClass", "ok")
        /\ UNCHANGED <<mobileNet, isTraining, trainingProgress, isModelReady,
                       trainingMetrics, isPredicting, predictions, rendered,
                       trainRuns, inferCalls>>

\* --------------------------------------------------- training controller
\* variant: only classes without any sample count as invalid
InvalidClassesEmptyOnly(cls) ==
    SelectSeq(cls, LAMBDA c : Len(c.samples) < 1)

\* classes.filter(c => c.samples.length < MIN_SAMPLES_PER_CLASS)
InvalidClasses(cls) ==
    SelectSeq(cls, LAMBDA c : Len(c.samples) < MIN_SAMPLES_PER_CLASS)

\* variant: an accepted startTraining also clears the stored metrics
StartTrainingClearingMetrics ==
    /\ ~rendered.isTraining
    /\ IF Len(InvalidClasses(rendered.classes)) > 0
       THEN /\ ev' = Event("startTraining", "rejected")
            /\ UNCHANGED <<mobileNet, state, rendered, trainRuns, inferCalls>>
       ELSE /\ InFlight < MaxInFlight
            /\ isTraining' = TRUE
            /\ trainingProgress' = 0
            /\ isModelReady' = FALSE
            /\ trainingMetrics' = NULL
            /\ trainRuns' = trainRuns + 1
            /\ ev' = [op |-> "startTraining", result |-> "accepted",
                      wasReady |-> isModelReady]
            /\ UNCHANGED <<mobileNet, classes, isPredicting,
                           predictions, rendered, inferCalls>>

\* the synchronous part of startTraining, up to the await; the Train button
\* is disabled while the rendered isTraining is true
StartTraining ==
    /\ ~rendered.isTraining
    /\ IF Len(InvalidClasses(rendered.classes)) > 0
       THEN /\ ev' = Event("startTraining", "rejected")
            /\ UNCHANGED <<mobileNet, state, rendered, trainRuns, inferCalls>>
       ELSE /\ InFlight < MaxInFlight
            /\ isTraining' = TRUE
            /\ trainingProgress' = 0
            /\ isModelReady' = FALSE
            /\ trainRuns' = trainRuns + 1
            /\ ev' = [op |-> "startTraining", result |-> "accepted",
                      wasReady |-> isModelReady]
            /\ UNCHANGED <<mobileNet, classes, trainingMetrics, isPredicting,
                           predictions, rendered, inferCalls>>

\* (p) => setTrainingProgress(p), called by a pending trainCNN
TrainProgress ==
    \E p \in ProgressValues :
        /\ trainRuns > 0
        /\ trainingProgress' = p
        /\ ev' = Event("progress", "ok")
        /\ UNCHANGED <<mobileNet, classes, isTraining, isModelReady, trainingMetrics,
                       isPredicting, predictions, rendered, trainRuns,
                       inferCalls>>

\* variant: the success path stores the metrics but never sets the ready flag
TrainResolveNotReady ==
    \E metrics \in MetricsValues :
        /\ trainRuns > 0
        /\ trainingMetrics' = metrics
        /\ isTraining' = FALSE
        /\ trainRuns' = trainRuns - 1
        /\ ev' = [op |-> "trainResolved", result |-> "ok", metrics |-> metrics]
        /\ UNCHANGED <<mobileNet, classes, trainingProgress, isModelReady, isPredicting,
                       predictions, rendered, inferCalls>>

\* trainCNN resolved: the rest of the try block, then finally
TrainResolve ==
    \E metrics \in MetricsValues :
        /\ trainRuns > 0
        /\ trainingMetrics' = metrics
        /\ isModelReady' = TRUE
        /\ isTraining' = FALSE
        /\ trainRuns' = trainRuns - 1
        /\ ev' = [op |-> "trainResolved", result |-> "ok", metrics |-> metrics]
        /\ UNCHANGED <<mobileNet, classes, trainingProgress, isPredicting, predictions,
                       rendered, inferCalls>>

\* variant: the failure path without the finally block
TrainRejectWithoutFinally ==
    /\ trainRuns > 0
    /\ trainRuns' = trainRuns - 1
    /\ ev' = Event("trainRejected", "failed")
    /\ UNCHANGED <<mobileNet, classes, isTraining, trainingProgress, isModelReady,
                   trainingMetrics, isPredicting, predictions, rendered,
                   inferCalls>>

\* trainCNN rejected: catch, then finally
TrainReject ==
    /\ trainRuns > 0
    /\ isTraining' = FALSE
    /\ trainRuns' = trainRuns - 1
    /\ ev' = Event("trainRejected", "failed")
    /\ UNCHANGED <<mobileNet, classes, trainingProgress, isModelReady, trainingMetrics,
                   isPredicting, predictions, rendered, inferCalls>>

\* ------------------------------------------------ inference orchestrator
\* a promise that has not settled
PENDING == [pending |-> TRUE]

\* the PredictionResult a classifier resolves with
ClassifierResult(m) == [modelName |-> m]

\* variant: the remote result is listed first
PublishedGeminiFirst(call) ==
    << [modelName |-> call.gemini.modelName, color |-> "text-purple-400"],
       [modelName |-> call.cnn.modelName, color |-> "text-blue-400"],
       [modelName |-> call.simple.modelName, color |-> "text-amber-400"] >>

\* setPredictions([{...cnnRes, color}, {...simpleRes, color}, {...geminiRes, color}])
Published(call) ==
    << [modelName |-> call.cnn.modelName, color |-> "text-blue-400"],
       [modelName |-> call.simple.modelName, color |-> "text-amber-400"],
       [modelName |-> call.gemini.modelName, color |-> "text-purple-400"] >>

\* variant: the guard of handleInference tests isPredicting only
HandleInferenceWithoutReadyGuard ==
    IF rendered.isPredicting
    THEN /\ ev' = Event("handleInference", "refused")
         /\ UNCHANGED <<mobileNet, state, rendered, trainRuns, inferCalls>>
    ELSE /\ InFlight < MaxInFlight
         /\ isPredicting' = TRUE
         /\ inferCalls' = inferCalls (+) SetToBag({[cnn |-> PENDING,
                                                    simple |-> PENDING,
                                                    gemini |-> PENDING]})
         /\ ev' = Event("handleInference", "accepted")
         /\ UNCHANGED <<mobileNet, classes, isTraining, trainingProgress,
                        isModelReady, trainingMetrics, predictions, rendered,
                        trainRuns>>

\* handleInference up to the await: the guard, setIsPredicting(true) and the
\* three classifier calls.  Called by the Predict Now button and by
\* WebcamCapture's onCapture with a captured frame.
HandleInference ==
    IF ~rendered.isModelReady \/ rendered.isPredicting
    THEN /\ ev' = Event("handleInference", "refused")
         /\ UNCHANGED <<mobileNet, state, rendered, trainRuns, inferCalls>>
    ELSE /\ InFlight < MaxInFlight
         /\ isPredicting' = TRUE
         /\ inferCalls' = inferCalls (+) SetToBag({[cnn |-> PENDING,
                                                    simple |-> PENDING,
                                                    gemini |-> PENDING]})
         /\ ev' = Event("handleInference", "accepted")
         /\ UNCHANGED <<mobileNet, classes, isTraining, trainingProgress, isModelReady,
                        trainingMetrics, predictions, rendered, trainRuns>>

Slots == {"cnn", "simple", "gemini"}
SlotModel(slot) == CASE slot = "cnn" -> ModelType.CNN
                     [] slot = "simple" -> ModelType.SIMPLE
                     [] slot = "gemini" -> ModelType.GEMINI

AllSettled(call) == \A slot \in Slots : call[slot] # PENDING

\* one classifier promise of a suspended call fulfils; when it is the last of the three,
\* Promise.all fulfils and the rest of handleInference runs
ClassifierResolve ==
    \E c \in BagToSet(inferCalls), slot \in Slots :
        /\ c[slot] = PENDING
        /\ LET call == [c EXCEPT ![slot] = ClassifierResult(SlotModel(slot))]
               rest == inferCalls (-) SetToBag({c})
           IN IF AllSettled(call)
              THEN /\ predictions' = Published(call)
                   /\ isPredicting' = FALSE
                   /\ inferCalls' = rest
                   /\ ev' = [op |-> "published", result |-> "ok",
                             last |-> slot]
              ELSE /\ inferCalls' = rest (+) SetToBag({call})
                   /\ ev' = Event("classifierResolved", "ok")
                   /\ UNCHANGED <<mobileNet, isPredicting, predictions>>
        /\ UNCHANGED <<mobileNet, classes, isTraining, trainingProgress, isModelReady,
                       trainingMetrics, rendered, trainRuns>>

\* one classifier promise of a suspended call rejects: Promise.all rejects, the await
\* throws and handleInference ends there
ClassifierReject ==
    \E c \in BagToSet(inferCalls), slot \in Slots :
        /\ c[slot] = PENDING
        /\ inferCalls' = inferCalls (-) SetToBag({c})
        /\ ev' = Event("inferenceThrew", "failed")
        /\ UNCHANGED <<mobileNet, state, rendered, trainRuns>>

\* loadMobileNet() fulfils; App keeps no record of it
LoadMobileNetResolve ==
    /\ mobileNet = "loading"
    /\ mobileNet' = "loaded"
    /\ ev' = Event("loadMobileNet", "ok")
    /\ UNCHANGED <<state, rendered, trainRuns, inferCalls>>

\* loadMobileNet() rejects: .catch(e => console.error("TF Load Error", e))
LoadMobileNetReject ==
    /\ mobileNet = "loading"
    /\ mobileNet' = "failed"
    /\ ev' = Event("loadMobileNet", "failed")
    /\ UNCHANGED <<state, rendered, trainRuns, inferCalls>>

\* The steps of App.  No handler reads the outcome of loadMobileNet, so Next
\* leaves its settling out (the load stays pending); NextLoad below adds it.
Next ==
    \/ Render
    \/ AddClass
    \/ UpdateClass
    \/ DeleteClass
    \/ StartTraining
    \/ TrainProgress
    \/ TrainResolve
    \/ TrainReject
    \/ HandleInference
    \/ ClassifierResolve
    \/ ClassifierReject

Spec == Init /\ [][Next]_vars

\* the registry and the training controller together with the settling of
\* the feature extractor load
NextLoad ==
    \/ LoadMobileNetResolve
    \/ LoadMobileNetReject
    \/ Render
    \/ AddClass
    \/ UpdateClass
    \/ DeleteClass
    \/ StartTraining
    \/ TrainProgress
    \/ TrainResolve
    \/ TrainReject

SpecLoad == Init /\ [][NextLoad]_vars

\* SpecLoad with every pending trainCNN promise settling eventually
FairSpec == SpecLoad /\ WF_vars(TrainResolve \/ TrainReject)

\* ============================================================ properties
RegistryOps == {"addClass", "updateClass", "deleteClass"}

\* some class the handlers see has fewer than the minimum number of samples
UnderPopulated(cls) ==
    \E k \in 1..Len(cls) : Len(cls[k].samples) < MIN_SAMPLES_PER_CLASS

\* the registry holds classes, each with the minimum number of samples
Populated(cls) == Len(cls) >= 1 /\ ~UnderPopulated(cls)

\* C1: a startTraining call over a class set in which some class has fewer
\* than MIN_SAMPLES_PER_CLASS samples is rejected: no trainCNN run is started,
\* isTraining does not become true, and classes, isModelReady,
\* trainingMetrics and trainingProgress keep their values.
C1_ValidationRejects ==
    [][(ev'.op = "startTraining" /\ UnderPopulated(rendered.classes))
        => /\ ev'.result = "rejected"
           /\ trainRuns' = trainRuns
           /\ isTraining' = isTraining
           /\ classes' = classes
           /\ isModelReady' = isModelReady
           /\ trainingMetrics' = trainingMetrics
           /\ trainingProgress' = trainingProgress]_vars

\* a startTraining call was just rejected although a trained model exists and
\* one class is fully populated
C1_Witness ==
    /\ ev.op = "startTraining" /\ ev.result = "rejected"
    /\ UnderPopulated(rendered.classes)
    /\ \E k \in 1..Len(rendered.classes) :
          Len(rendered.classes[k].samples) >= MIN_SAMPLES_PER_CLASS
    /\ isModelReady /\ trainingMetrics # NULL /\ ~isTraining /\ trainRuns = 0

\* C2: when a run that was started in the Ready state (over a populated
\* registry) fails, the controller is Ready again: isModelReady is true and
\* trainingMetrics is retained.
C2_FailedRetrainKeepsReady ==
    [][(/\ ev.op = "startTraining" /\ ev.result = "accepted"
        /\ ev.wasReady
        /\ trainRuns = 1
        /\ Populated(classes) /\ rendered.classes = classes
        /\ ev'.op = "trainRejected")
        => (isModelReady' /\ trainingMetrics' = trainingMetrics)]_vars

\* C3: at most one handleInference call is outstanding at any time (stated
\* for a populated registry).
C3_SingleFlight ==
    (Populated(classes) /\ rendered.classes = classes)
        => BagCardinality(inferCalls) <= 1

FailureShaped(r) == "error" \in DOMAIN r
SlotIndex(slot) == CASE slot = "cnn" -> 1
                     [] slot = "simple" -> 2
                     [] slot = "gemini" -> 3

\* C4: when the last of the three classifiers of a call rejects after the
\* other two have fulfilled, the call publishes three slots: the two results
\* returned, in their slots, and a failure-shaped result in the failed slot.
C4_PartialFailureIsolated ==
    [][\A c \in BagToSet(inferCalls), slot \in Slots :
        (/\ Populated(classes) /\ rendered.classes = classes
         /\ c[slot] = PENDING
         /\ \A o \in Slots \ {slot} : c[o] # PENDING
         /\ ev'.op = "inferenceThrew"
         /\ inferCalls' = inferCalls (-) SetToBag({c}))
        => /\ Len(predictions') = 3
           /\ FailureShaped(predictions'[SlotIndex(slot)])
           /\ \A o \in Slots \ {slot} :
                predictions'[SlotIndex(o)].modelName = c[o].modelName]_vars

\* C5: while a training run is in progress isModelReady is false, and a
\* handleInference call made then (over a populated registry) is refused.
C5_NoInferenceWhileTraining ==
    [][/\ isTraining => ~isModelReady
       /\ (/\ isTraining /\ trainRuns = 1
           /\ Populated(classes) /\ rendered.classes = classes
           /\ ev'.op = "handleInference")
            => ev'.result = "refused"]_vars

\* C6: no step changes the classes list while a run over a populated
\* registry is in flight and isTraining is true, also when the handlers have
\* been re-rendered since the run started.
C6_RegistryReadOnlyWhileTraining ==
    [][(/\ isTraining /\ trainRuns = 1
        /\ rendered.isTraining
        /\ Populated(classes) /\ rendered.classes = classes)
        => classes' = classes]_vars

\* C7: a handleInference call that directly follows the deletion of a class
\* in the Ready state (a run has succeeded, none is pending; the classes left
\* are populated) is refused.
C7_StaleModelRefused ==
    [][(/\ ev.op = "deleteClass"
        /\ isModelReady /\ trainingMetrics # NULL /\ trainRuns = 0
        /\ Len(classes) < Len(rendered.classes) /\ Populated(classes)
        /\ Populated(rendered.classes)
        /\ ev'.op = "handleInference")
        => ev'.result = "refused"]_vars

\* C8: in the Ready state addClass, updateClass and deleteClass leave
\* isModelReady true and trainingMetrics, isTraining and trainingProgress
\* unchanged.
C8_RegistryOpsKeepReady ==
    [][(isModelReady /\ ev'.op \in RegistryOps)
        => /\ isModelReady'
           /\ trainingMetrics' = trainingMetrics
           /\ isTraining' = isTraining
           /\ trainingProgress' = trainingProgress]_vars

\* a class was just deleted from a populated registry in the Ready state
C8_Witness ==
    /\ ev.op = "deleteClass"
    /\ isModelReady /\ trainingMetrics # NULL /\ ~isTraining
    /\ Len(rendered.classes) = 2 /\ Populated(rendered.classes)
    /\ Len(classes) = 1

\* C9: a startTraining call over a class set in which every class has at
\* least MIN_SAMPLES_PER_CLASS samples starts a run, and when trainCNN resolves
\* the controller is Ready: isTraining false, isModelReady true and
\* trainingMetrics the metrics trainCNN resolved with.
C9_SuccessReachesReady ==
    [][/\ (ev'.op = "startTraining" /\ ~UnderPopulated(rendered.classes))
            => /\ ev'.result = "accepted"
               /\ isTraining'
               /\ trainRuns' = trainRuns + 1
       /\ ev'.op = "trainResolved"
            => /\ ~isTraining'
               /\ isModelReady'
               /\ trainingMetrics' = ev'.metrics]_vars

\* the run started over two fully populated classes has just resolved
C9_Witness ==
    /\ ev.op = "trainResolved"
    /\ Len(rendered.classes) = 2 /\ ~UnderPopulated(rendered.classes)
    /\ isModelReady /\ ~isTraining /\ trainingMetrics = ev.metrics
    /\ trainRuns = 0

\* C10: a non-empty predictions list has exactly three entries, in the order
\* MobileNet CNN, Color Histogram, Gemini 2.5 Flash.
C10_ThreeSlotsFixedOrder ==
    predictions # <<>> =>
        /\ Len(predictions) = 3
        /\ predictions[1].modelName = ModelType.CNN
        /\ predictions[2].modelName = ModelType.SIMPLE
        /\ predictions[3].modelName = ModelType.GEMINI

\* a result list was just published by a call whose transfer-learning
\* classifier, listed first, was the last of the three to fulfil
C10_Witness ==
    /\ ev.op = "published" /\ ev.last = "cnn"
    /\ Len(predictions) = 3
    /\ ~isPredicting

\* C11: no two entries of classes have the same id.
C11_UniqueIds ==
    \A i, j \in 1..Len(classes) : classes[i].id = classes[j].id => i = j

\* C12: a startTraining call (over a populated registry) starts a trainCNN
\* run only when loadMobileNet has fulfilled, not while it is pending and not
\* after it has rejected.
C12_TrainingAwaitsExtractor ==
    [][(/\ ev'.op = "startTraining" /\ ev'.result = "accepted"
        /\ Populated(rendered.classes))
        => mobileNet = "loaded"]_vars

\* C13: as long as no training run has succeeded (trainingMetrics, written by
\* the success path only, is still null), predictions is empty, no
\* handleInference call has reached the classifiers and isPredicting is false.
C13_NoPredictionBeforeTraining ==
    trainingMetrics = NULL
        => /\ predictions = <<>>
           /\ inferCalls = EmptyBag
           /\ ~isPredicting

\* handleInference was just refused while the first training run, over a
\* populated registry, is still pending
C13_Witness ==
    /\ ev.op = "handleInference" /\ ev.result = "refused"
    /\ trainingMetrics = NULL /\ trainRuns = 1 /\ isTraining
    /\ Populated(classes)
    /\ predictions = <<>> /\ inferCalls = EmptyBag /\ ~isPredicting

C15_PredictingFlagReset ==
    (/\ Populated(classes) /\ rendered.classes = classes
     /\ inferCalls = EmptyBag)
        => ~isPredicting

\* C16: a startTraining call made from an up-to-date render is accepted only
\* when no handleInference call is outstanding, and no step publishes
\* prediction results while isTraining is true (stated for a populated
\* registry).
C16_TrainingExcludesInference ==
    [][(Populated(classes) /\ rendered.classes = classes)
        => /\ (/\ rendered = Snapshot
               /\ ev'.op = "startTraining" /\ ev'.result = "accepted")
                => inferCalls = EmptyBag
           /\ ev'.op = "published" => ~isTraining]_vars

\* C17: at most one trainCNN run is in flight at any time (stated for a
\* populated registry).
C17_SingleTrainingRun ==
    (Populated(classes) /\ rendered.classes = classes) => trainRuns <= 1

\* C18: an addClass call that directly follows another registry operation
\* takes effect on top of it: the list it leaves is the list it found plus
\* the new class.
C18_RegistryOpsNotLost ==
    [][(ev.op \in RegistryOps /\ ev'.op = "addClass")
        => /\ Len(classes') = Len(classes) + 1
           /\ SubSeq(classes', 1, Len(classes)) = classes]_vars

\* C19: whenever isModelReady is true trainingMetrics is not null; a step in
\* which trainCNN resolves stores the metrics it resolved with, and no other
\* step changes trainingMetrics, so it holds the metrics of the most recent
\* successful run and is never cleared.
C19_MetricsOfLastSuccess ==
    [][/\ isModelReady' => trainingMetrics' # NULL
       /\ ev'.op = "trainResolved"
            => (trainingMetrics' = ev'.metrics /\ trainingMetrics' # NULL)
       /\ ev'.op # "trainResolved"
            => trainingMetrics' = trainingMetrics]_vars

\* a retraining run was just started in the Ready state over a populated
\* registry: the ready flag is cleared and the earlier run's metrics are kept
C19_Witness ==
    /\ ev.op = "startTraining" /\ ev.result = "accepted" /\ ev.wasReady
    /\ Populated(rendered.classes)
    /\ isTraining /\ ~isModelReady /\ trainRuns = 1
    /\ trainingMetrics \in MetricsValues

====
